---------------------------- MODULE Spec2Model ----------------------------
(***************************************************************************)
(* A model of hl::CircularBuffer<T> (src/CircularBuffer.hpp): one buffer   *)
(* instance shared by several threads that call read, write, canRead and   *)
(* canWrite.  The backing store is modelled byte by byte, the cursors are  *)
(* byte offsets, and every statement that runs under the mutex is one step *)
(* of the calling thread.                                                  *)
(***************************************************************************)
EXTENDS Integers, Sequences, FiniteSets, TLC

(***************************************************************************)
(* Bounds of the model.                                                    *)
(***************************************************************************)
NumThreads == 2         \* threads sharing the buffer
MaxBufferSize == 3      \* largest bufferSize given to the constructor
PacketSize == 2         \* sizeof(T), in bytes
MaxValue == 2           \* values of T are 1..MaxValue
MaxPackets == 2         \* longest vector given to write

Threads == 1..NumThreads
Values == 1..MaxValue

\* every vector of at most n values of T
RECURSIVE VectorsUpTo(_)
VectorsUpTo(n) ==
    IF n = 0 THEN {<<>>}
    ELSE VectorsUpTo(n - 1) \cup [1..n -> Values]

Inputs == VectorsUpTo(MaxPackets)

\* a byte of the store that was allocated and never written
Indeterminate == 256

VARIABLES
    alive,                  \* the constructor returned (its assertion held)
    bufferSize,             \* _bufferSize
    rawBufferSize,          \* _rawBufferSize
    buffer,                 \* _buffer: byte offset -> byte
    readPtr,                \* _readPtr
    writePtr,               \* _writePtr
    mut,                    \* _mut: 0 when free, else the owning thread
    pc,                     \* per thread: the statement it is at
    packets,                \* per thread: the vector write was given (by reference)
    removeWrittenPackets,   \* per thread: write's flag
    packetIndex,            \* per thread: write's local
    values,                 \* per thread: read's local
    ret,                    \* per thread: the value write returns
    answer,                 \* per thread: the value canRead / canWrite returns
    exc,                    \* per thread: the exception in flight, or "none"
    tracking,               \* history: whether the abstract queue below is being recorded
    entry,                  \* history: the shared state when the mutex was taken
    stored,                 \* history: the values copied in and not yet copied out, oldest first
    accepted,               \* history: contents of a FIFO queue of bound bufferSize - 1 fed the same calls
    untruncated,            \* history: no write since the buffer was last empty was given more than the free space
    owed,                   \* history: the written prefixes of the writes since the last read, in lock order
    original,               \* retry scenario: the sequence the producer set out to send
    delivered,              \* retry scenario: what the consumer's reads returned, in order
    inOrder                 \* retry scenario: delivered has always been a prefix of original

vars == <<alive, bufferSize, rawBufferSize, buffer, readPtr, writePtr, mut, pc,
          packets, removeWrittenPackets, packetIndex, values, ret, answer, exc,
          tracking, entry, stored, accepted, untruncated, owed, original, delivered,
          inOrder>>

shared == <<alive, bufferSize, rawBufferSize, buffer, readPtr, writePtr>>
locals == <<packets, removeWrittenPackets, packetIndex, values, ret, answer, exc>>
scenario == <<original, delivered, inOrder>>
history == <<tracking, entry, stored, accepted, untruncated, owed, scenario>>

(***************************************************************************)
(* Pure helpers.                                                           *)
(***************************************************************************)
Min(a, b) == IF a <= b THEN a ELSE b

Take(s, n) == SubSeq(s, 1, n)

Drop(s, n) == SubSeq(s, n + 1, Len(s))

\* the object representation of a value of T: PacketSize bytes, low byte first
ObjectRep(v) == [i \in 0..(PacketSize - 1) |-> (v \div (256 ^ i)) % 256]

\* std::memcpy(buf + off, &v, _packetSize)
MemcpyIn(buf, off, v) ==
    [b \in DOMAIN buf |->
        IF off <= b /\ b < off + PacketSize THEN ObjectRep(v)[b - off] ELSE buf[b]]

RECURSIVE ValueOfBytes(_, _, _)
ValueOfBytes(buf, off, n) ==
    IF n = 0 THEN 0
    ELSE buf[off + n - 1] * (256 ^ (n - 1)) + ValueOfBytes(buf, off, n - 1)

\* std::memcpy(&value, buf + off, _packetSize): the values `value` can then hold;
\* copying a byte that was never written leaves `value` indeterminate
MemcpyOut(buf, off) ==
    IF \E i \in 0..(PacketSize - 1) : buf[off + i] = Indeterminate
    THEN Values
    ELSE {ValueOfBytes(buf, off, PacketSize)}

\* a cursor advance that never wraps
nextIndexUnwrapped(index) == index + PacketSize

nextIndex(index) == (index + PacketSize) % rawBufferSize

\* == typed for !=
canReadInverted == readPtr = writePtr

canReadNotThreadSafe == readPtr # writePtr

\* the fullness test typed as the emptiness test
canWriteConfused == writePtr # readPtr

canWriteNotThreadSafe == nextIndex(writePtr) # readPtr

\* number of slots from cursor `from` up to cursor `to`, cyclically
SlotsBetween(from, to) == (((to - from) + rawBufferSize) % rawBufferSize) \div PacketSize

\* the values held by the slots from cursor `from` up to cursor `to`, cyclically
RECURSIVE SlotValues(_, _, _)
SlotValues(buf, from, to) ==
    IF from = to THEN <<>>
    ELSE <<ValueOfBytes(buf, from, PacketSize)>> \o SlotValues(buf, nextIndex(from), to)

NoEntry == [readPtr |-> 0, writePtr |-> 0, buffer |-> <<>>, stored |-> <<>>, packets |-> <<>>]

(***************************************************************************)
(* Construction.                                                           *)
(***************************************************************************)
\* a build with NDEBUG, where assert expands to nothing
AssertCompiledOut(n) == TRUE

\* assert(bufferSize > 1)
AssertHolds(n) == n > 1

\* the members after the constructor ran with bufferSize = n, and threads that
\* have not called anything yet
Constructed(n) ==
    /\ alive = AssertHolds(n)
    /\ bufferSize = n
    /\ rawBufferSize = PacketSize * n
    /\ buffer = [b \in 0..(PacketSize * n - 1) |-> Indeterminate]
    /\ readPtr = 0
    /\ writePtr = 0
    /\ mut = 0
    /\ pc = [t \in Threads |-> "idle"]
    /\ removeWrittenPackets = [t \in Threads |-> TRUE]
    /\ packetIndex = [t \in Threads |-> 0]
    /\ values = [t \in Threads |-> <<>>]
    /\ ret = [t \in Threads |-> 0]
    /\ answer = [t \in Threads |-> FALSE]
    /\ exc = [t \in Threads |-> "none"]
    /\ entry = NoEntry
    /\ stored = <<>>
    /\ accepted = <<>>
    /\ untruncated = TRUE
    /\ owed = <<>>
    /\ delivered = <<>>
    /\ inOrder = TRUE

Constructor(n, rec) ==
    /\ Constructed(n)
    /\ tracking = rec
    /\ packets = [t \in Threads |-> <<>>]
    /\ original = <<>>

Init == \E n \in 0..MaxBufferSize : Constructor(n, FALSE)

InitHistory == \E n \in 0..MaxBufferSize : Constructor(n, TRUE)

(***************************************************************************)
(* The mutex: std::lock_guard<std::mutex> lock(_mut).                      *)
(***************************************************************************)
\* a lock_guard that does not wait for the mutex
LockTaken(t) == TRUE

LockFree(t) == mut = 0

Snapshot(pk) ==
    [readPtr |-> readPtr, writePtr |-> writePtr, buffer |-> buffer,
     stored |-> stored, packets |-> pk]

\* A thread calls read, write, canRead or canWrite and reaches the call's
\* lock_guard.  Nothing of the call is visible to the other threads until it
\* owns the mutex, so which of the four it is, and with which arguments, is
\* drawn by the step that takes the mutex.
Call(t) ==
    /\ alive
    /\ pc[t] = "idle"
    /\ pc' = [pc EXCEPT ![t] = "lock_guard"]
    /\ UNCHANGED <<shared, mut, locals, history>>

(***************************************************************************)
(* read                                                                    *)
(***************************************************************************)
ReadLock(t) ==
    /\ pc[t] = "lock_guard"
    /\ LockFree(t)
    /\ mut' = t
    /\ values' = [values EXCEPT ![t] = <<>>]
    /\ entry' = Snapshot(<<>>)
    /\ pc' = [pc EXCEPT ![t] = "read_check"]
    /\ UNCHANGED <<shared, packets, removeWrittenPackets, packetIndex, ret, answer, exc,
                   tracking, stored, accepted, untruncated, owed, scenario>>

\* read without its emptiness check
ReadCheckSkipped == TRUE

ReadCheckPasses == canReadNotThreadSafe

ReadCheck(t) ==
    /\ pc[t] = "read_check"
    /\ IF ReadCheckPasses
       THEN /\ pc' = [pc EXCEPT ![t] = "read_loop"]
            /\ UNCHANGED exc
       ELSE /\ pc' = [pc EXCEPT ![t] = "read_throw"]
            /\ exc' = [exc EXCEPT ![t] = "ErrorNothingToRead"]
    /\ UNCHANGED <<shared, mut, packets, removeWrittenPackets, packetIndex, values, ret,
                   answer, history>>

\* a read that takes one element only
ReadLoopGuardOnce(t) == readPtr # writePtr /\ values[t] = <<>>

ReadLoopGuard(t) == readPtr # writePtr

\* a read that zeroes every slot it has copied out
ReadLoopClearing(t) ==
    /\ pc[t] = "read_loop"
    /\ IF ReadLoopGuard(t)
       THEN /\ \E value \in MemcpyOut(buffer, readPtr) :
                   values' = [values EXCEPT ![t] = Append(@, value)]
            /\ buffer' = [b \in DOMAIN buffer |->
                             IF readPtr <= b /\ b < readPtr + PacketSize
                             THEN 0 ELSE buffer[b]]
            /\ readPtr' = nextIndex(readPtr)
            /\ stored' = Tail(stored)
            /\ UNCHANGED pc
       ELSE /\ pc' = [pc EXCEPT ![t] = "read_return"]
            /\ UNCHANGED <<buffer, readPtr, values, stored>>
    /\ UNCHANGED <<alive, bufferSize, rawBufferSize, writePtr, mut, packets,
                   removeWrittenPackets, packetIndex, ret, answer, exc, tracking, entry,
                   accepted, untruncated, owed, scenario>>

ReadLoop(t) ==
    /\ pc[t] = "read_loop"
    /\ IF ReadLoopGuard(t)
       THEN /\ \E value \in MemcpyOut(buffer, readPtr) :
                   values' = [values EXCEPT ![t] = Append(@, value)]
            /\ readPtr' = nextIndex(readPtr)
            /\ stored' = Tail(stored)
            /\ UNCHANGED pc
       ELSE /\ pc' = [pc EXCEPT ![t] = "read_return"]
            /\ UNCHANGED <<readPtr, values, stored>>
    /\ UNCHANGED <<alive, bufferSize, rawBufferSize, buffer, writePtr, mut, packets,
                   removeWrittenPackets, packetIndex, ret, answer, exc, tracking, entry,
                   accepted, untruncated, owed, scenario>>

(***************************************************************************)
(* write                                                                   *)
(***************************************************************************)
WriteLock(t) ==
    /\ pc[t] = "lock_guard"
    /\ LockFree(t)
    /\ mut' = t
    /\ \E pk \in Inputs, rm \in BOOLEAN :
          /\ packets' = [packets EXCEPT ![t] = pk]
          /\ removeWrittenPackets' = [removeWrittenPackets EXCEPT ![t] = rm]
          /\ entry' = Snapshot(pk)
    /\ packetIndex' = [packetIndex EXCEPT ![t] = 0]
    /\ pc' = [pc EXCEPT ![t] = "write_empty"]
    /\ UNCHANGED <<shared, values, ret, answer, exc, tracking, stored, accepted,
                   untruncated, owed, scenario>>

\* write without its early return for an empty vector
PacketsEmptyIgnored(t) == FALSE

\* packets.empty()
PacketsEmpty(t) == packets[t] = <<>>

WriteEmpty(t) ==
    /\ pc[t] = "write_empty"
    /\ IF PacketsEmpty(t)
       THEN /\ ret' = [ret EXCEPT ![t] = 0]
            /\ pc' = [pc EXCEPT ![t] = "write_return"]
       ELSE /\ pc' = [pc EXCEPT ![t] = "write_busy"]
            /\ UNCHANGED ret
    /\ UNCHANGED <<shared, mut, packets, removeWrittenPackets, packetIndex, values,
                   answer, exc, history>>

\* write without its fullness check
WriteCheckSkipped == TRUE

WriteCheckPasses == canWriteNotThreadSafe

WriteBusy(t) ==
    /\ pc[t] = "write_busy"
    /\ IF WriteCheckPasses
       THEN /\ pc' = [pc EXCEPT ![t] = "write_loop"]
            /\ UNCHANGED exc
       ELSE /\ pc' = [pc EXCEPT ![t] = "write_throw"]
            /\ exc' = [exc EXCEPT ![t] = "ErrorBufferBusy"]
    /\ UNCHANGED <<shared, mut, packets, removeWrittenPackets, packetIndex, values, ret,
                   answer, history>>

\* a write loop that does not stop at a full buffer
WriteLoopGuardNoFullCheck(t) == packetIndex[t] < Len(packets[t])

WriteLoopGuard(t) ==
    /\ readPtr # nextIndex(writePtr)
    /\ packetIndex[t] < Len(packets[t])

\* the abstract queue takes what fits of the vector a successful write was given
Accept(q, pk) == q \o Take(pk, Min(Len(pk), (bufferSize - 1) - Len(q)))

\* the abstract queue has room for the whole vector
Fits(q, pk) == Len(pk) <= (bufferSize - 1) - Len(q)

WriteLoop(t) ==
    /\ pc[t] = "write_loop"
    /\ IF WriteLoopGuard(t)
       THEN /\ buffer' = MemcpyIn(buffer, writePtr, packets[t][packetIndex[t] + 1])
            /\ writePtr' = nextIndex(writePtr)
            /\ stored' = Append(stored, packets[t][packetIndex[t] + 1])
            /\ UNCHANGED pc
       ELSE /\ pc' = [pc EXCEPT ![t] = "write_erase"]
            /\ UNCHANGED <<buffer, writePtr, stored>>
    /\ UNCHANGED <<alive, bufferSize, rawBufferSize, readPtr, mut, locals, tracking,
                   entry, accepted, untruncated, owed, scenario>>

\* the written prefix of the call in progress: as many leading elements of its
\* vector as slots the write cursor has advanced
WrittenPrefix ==
    Take(entry.packets,
         Min(SlotsBetween(entry.writePtr, writePtr), Len(entry.packets)))

WriteErase(t) ==
    /\ pc[t] = "write_erase"
    /\ packets' = [packets EXCEPT ![t] =
                      IF removeWrittenPackets[t] THEN Drop(@, packetIndex[t]) ELSE @]
    /\ ret' = [ret EXCEPT ![t] = packetIndex[t]]
    /\ pc' = [pc EXCEPT ![t] = "write_return"]
    /\ accepted' = IF tracking THEN Accept(accepted, entry.packets) ELSE accepted
    /\ untruncated' = IF tracking THEN untruncated /\ Fits(accepted, entry.packets)
                                  ELSE untruncated
    /\ owed' = IF tracking THEN owed \o WrittenPrefix ELSE owed
    /\ UNCHANGED <<shared, mut, removeWrittenPackets, packetIndex, values, answer, exc,
                   tracking, entry, stored, scenario>>

(***************************************************************************)
(* canRead / canWrite                                                      *)
(***************************************************************************)
QueryLock(t, to) ==
    /\ pc[t] = "lock_guard"
    /\ LockFree(t)
    /\ mut' = t
    /\ entry' = Snapshot(<<>>)
    /\ pc' = [pc EXCEPT ![t] = to]
    /\ UNCHANGED <<shared, locals, tracking, stored, accepted, untruncated, owed,
                   scenario>>

CanReadLock(t) == QueryLock(t, "canRead_body")

CanRead(t) ==
    /\ pc[t] = "canRead_body"
    /\ answer' = [answer EXCEPT ![t] = canReadNotThreadSafe]
    /\ pc' = [pc EXCEPT ![t] = "canRead_return"]
    /\ UNCHANGED <<shared, mut, packets, removeWrittenPackets, packetIndex, values, ret,
                   exc, history>>

CanWriteLock(t) == QueryLock(t, "canWrite_body")

CanWrite(t) ==
    /\ pc[t] = "canWrite_body"
    /\ answer' = [answer EXCEPT ![t] = canWriteNotThreadSafe]
    /\ pc' = [pc EXCEPT ![t] = "canWrite_return"]
    /\ UNCHANGED <<shared, mut, packets, removeWrittenPackets, packetIndex, values, ret,
                   exc, history>>

(***************************************************************************)
(* Leaving an operation: the lock_guard's destructor releases the mutex,   *)
(* on a return and on a throw alike, and the call's locals are gone.       *)
(***************************************************************************)
ExitPcs == {"read_return", "read_throw", "write_return", "write_throw",
            "canRead_return", "canWrite_return"}

BodyPcs == {"read_check", "read_loop", "write_empty", "write_busy", "write_loop",
            "write_erase", "canRead_body", "canWrite_body"} \cup ExitPcs

\* a lock_guard whose destructor does not run when an exception leaves the scope
MutexKeptOnThrow(t) == IF pc[t] \in {"read_throw", "write_throw"} THEN t ELSE 0

\* the owner of the mutex once thread t's lock_guard is destroyed: nobody
MutexAfterExit(t) == 0

\* the lock_guard's destructor runs and the call's own locals are gone
Release(t) ==
    /\ pc[t] \in ExitPcs
    /\ mut' = MutexAfterExit(t)
    /\ pc' = [pc EXCEPT ![t] = "idle"]
    /\ removeWrittenPackets' = [removeWrittenPackets EXCEPT ![t] = TRUE]
    /\ packetIndex' = [packetIndex EXCEPT ![t] = 0]
    /\ values' = [values EXCEPT ![t] = <<>>]
    /\ ret' = [ret EXCEPT ![t] = 0]
    /\ answer' = [answer EXCEPT ![t] = FALSE]
    /\ exc' = [exc EXCEPT ![t] = "none"]
    /\ entry' = NoEntry
    /\ accepted' = IF pc[t] = "read_return" THEN <<>> ELSE accepted
    /\ untruncated' = IF pc[t] = "read_return" THEN TRUE ELSE untruncated
    /\ owed' = IF pc[t] = "read_return" THEN <<>> ELSE owed
    /\ UNCHANGED <<shared, tracking, stored>>

Unlock(t) ==
    /\ Release(t)
    /\ packets' = [packets EXCEPT ![t] = <<>>]
    /\ UNCHANGED scenario

Next ==
    \E t \in Threads :
        \/ Call(t)
        \/ ReadLock(t)
        \/ ReadCheck(t)
        \/ ReadLoop(t)
        \/ WriteLock(t)
        \/ WriteEmpty(t)
        \/ WriteBusy(t)
        \/ WriteLoop(t)
        \/ WriteErase(t)
        \/ CanReadLock(t)
        \/ CanRead(t)
        \/ CanWriteLock(t)
        \/ CanWrite(t)
        \/ Unlock(t)

Spec == Init /\ [][Next]_vars

\* the same program, with the abstract queue recorded alongside
SpecHistory == InitHistory /\ [][Next]_vars

\* thread t takes the mutex, in whichever of the four operations it called
Acquire(t) ==
    \/ ReadLock(t)
    \/ WriteLock(t)
    \/ CanReadLock(t)
    \/ CanWriteLock(t)

\* thread t, owning the mutex, takes the next step of its operation or leaves it
Runs(t) ==
    \/ ReadCheck(t)
    \/ ReadLoop(t)
    \/ WriteEmpty(t)
    \/ WriteBusy(t)
    \/ WriteLoop(t)
    \/ WriteErase(t)
    \/ CanRead(t)
    \/ CanWrite(t)
    \/ Unlock(t)

\* Fair scheduling: a thread inside an operation keeps running, and a thread
\* that finds the mutex free again and again gets it.  Threads are free to stop
\* calling.
Fair == \A t \in Threads : WF_vars(Runs(t)) /\ SF_vars(Acquire(t))

SpecFair == Init /\ [][Next]_vars /\ Fair

(***************************************************************************)
(* The retry scenario: one producer thread holds a non-empty vector and    *)
(* keeps calling write(v, true) on the same vector while it is not empty   *)
(* (after a return and after ErrorBufferBusy alike), and one consumer      *)
(* thread keeps calling read and collects what it returns.                 *)
(***************************************************************************)
Producer == CHOOSE t \in Threads : \A u \in Threads : t <= u

Consumer == CHOOSE t \in Threads : \A u \in Threads : u <= t

InitRetry ==
    \E n \in 0..MaxBufferSize, v \in Inputs \ {<<>>} :
        /\ Constructed(n)
        /\ alive
        /\ tracking = FALSE
        /\ packets = [t \in Threads |-> IF t = Producer THEN v ELSE <<>>]
        /\ original = v

ProducerCall ==
    /\ packets[Producer] # <<>>
    /\ Call(Producer)

ConsumerCall == Call(Consumer)

\* write(v, true): packets is a reference to the producer's own vector
RetryWriteLock(t) ==
    /\ pc[t] = "lock_guard"
    /\ LockFree(t)
    /\ mut' = t
    /\ removeWrittenPackets' = [removeWrittenPackets EXCEPT ![t] = TRUE]
    /\ packetIndex' = [packetIndex EXCEPT ![t] = 0]
    /\ entry' = Snapshot(packets[t])
    /\ pc' = [pc EXCEPT ![t] = "write_empty"]
    /\ UNCHANGED <<shared, packets, values, ret, answer, exc, tracking, stored, accepted,
                   untruncated, owed, scenario>>

\* write is left, by return or by ErrorBufferBusy; the vector stays the producer's
ProducerReturn(t) ==
    /\ Release(t)
    /\ UNCHANGED <<packets, scenario>>

\* read is left; what it returned is appended to what was delivered so far
ConsumerReturn(t) ==
    /\ Release(t)
    /\ UNCHANGED <<packets, original>>
    /\ IF pc[t] = "read_return"
       THEN LET d == delivered \o values[t] IN
            IF inOrder /\ Len(d) <= Len(original) /\ d = Take(original, Len(d))
            THEN delivered' = d /\ inOrder' = TRUE
            ELSE delivered' = delivered /\ inOrder' = FALSE
       ELSE UNCHANGED <<delivered, inOrder>>

NextRetry ==
    \/ ProducerCall
    \/ RetryWriteLock(Producer)
    \/ WriteEmpty(Producer)
    \/ WriteBusy(Producer)
    \/ WriteLoop(Producer)
    \/ WriteErase(Producer)
    \/ ProducerReturn(Producer)
    \/ ConsumerCall
    \/ ReadLock(Consumer)
    \/ ReadCheck(Consumer)
    \/ ReadLoop(Consumer)
    \/ ConsumerReturn(Consumer)

\* what thread t does once it owns the mutex, up to and including its release
ProducerRuns ==
    \/ ProducerCall
    \/ WriteEmpty(Producer)
    \/ WriteBusy(Producer)
    \/ WriteLoop(Producer)
    \/ WriteErase(Producer)
    \/ ProducerReturn(Producer)

ConsumerRuns ==
    \/ ConsumerCall
    \/ ReadCheck(Consumer)
    \/ ReadLoop(Consumer)
    \/ ConsumerReturn(Consumer)

\* Fair scheduling: a thread that can run does run, and a thread that finds the
\* mutex free again and again gets it.
FairRetry ==
    /\ WF_vars(ProducerRuns)
    /\ WF_vars(ConsumerRuns)
    /\ SF_vars(RetryWriteLock(Producer))
    /\ SF_vars(ReadLock(Consumer))

SpecRetry == InitRetry /\ [][NextRetry]_vars /\ FairRetry


(***************************************************************************)
(* What the holder of the mutex found on entry.                            *)
(***************************************************************************)
InBody(t) == pc[t] \in BodyPcs

EntryResident == SlotsBetween(entry.readPtr, entry.writePtr)

EntryFree == (bufferSize - 1) - EntryResident

EntryEmpty == entry.readPtr = entry.writePtr

EntryFull == nextIndex(entry.writePtr) = entry.readPtr

\* number of slots the write cursor has advanced since entry
Enqueued == SlotsBetween(entry.writePtr, writePtr)

NothingMutated ==
    /\ readPtr = entry.readPtr
    /\ writePtr = entry.writePtr
    /\ buffer = entry.buffer

(***************************************************************************)
(* C1.  FIFO order: after successful writes on an empty buffer whose       *)
(* vectors together hold at most bufferSize - 1 elements, a read returns   *)
(* the concatenation of those vectors, in call order.                      *)
(***************************************************************************)
C1_FifoOrder ==
    \A t \in Threads :
        (pc[t] = "read_return" /\ untruncated) => values[t] = accepted

(***************************************************************************)
(* C2.  The value a successful write returns is the number of slots by     *)
(* which the write cursor advanced during the call.                        *)
(***************************************************************************)
C2_ReturnIsEnqueuedCount ==
    \A t \in Threads :
        pc[t] = "write_return" => ret[t] = Enqueued

(***************************************************************************)
(* C3.  A successful write of n >= 1 elements with f >= 1 free slots       *)
(* enqueues the first min(n, f) elements of its vector, in order.          *)
(***************************************************************************)
C3_WritesPrefix ==
    \A t \in Threads :
        (pc[t] = "write_return" /\ Len(entry.packets) >= 1) =>
            LET k == Min(Len(entry.packets), EntryFree) IN
            /\ Enqueued = k
            /\ SlotValues(buffer, entry.writePtr, writePtr) = Take(entry.packets, k)
            /\ (Len(entry.packets) < EntryFree => canWriteNotThreadSafe)
            /\ (Len(entry.packets) > EntryFree => Enqueued < Len(entry.packets))

(***************************************************************************)
(* C4.  Capacity invariant: at most bufferSize - 1 elements are resident,  *)
(* the resident elements are exactly the slots from readPtr up to          *)
(* writePtr, and each of them still holds the value that was copied in:    *)
(* no write moves writePtr onto readPtr or overwrites an unread element.   *)
(***************************************************************************)
C4_CapacityInvariant ==
    alive =>
        /\ Len(stored) <= bufferSize - 1
        /\ SlotsBetween(readPtr, writePtr) = Len(stored)
        /\ SlotValues(buffer, readPtr, writePtr) = stored

\* a write has filled the buffer across the end of the backing store
C4_Witness ==
    \E t \in Threads :
        /\ pc[t] = "write_erase"
        /\ Len(stored) = bufferSize - 1
        /\ writePtr < readPtr
        /\ Len(packets[t]) > EntryFree

(***************************************************************************)
(* C5.  Empty-read error: a read that finds readPtr = writePtr throws      *)
(* ErrorNothingToRead, has copied no element out, and leaves both cursors  *)
(* and the store as they were.                                             *)
(***************************************************************************)
C5_EmptyRead ==
    \A t \in Threads :
        (pc[t] \in {"read_loop", "read_return", "read_throw"} /\ EntryEmpty) =>
            /\ pc[t] = "read_throw"
            /\ exc[t] = "ErrorNothingToRead"
            /\ values[t] = <<>>
            /\ NothingMutated

\* a read of a buffer that was filled and then fully drained
C5_Witness ==
    \E t \in Threads :
        /\ pc[t] = "read_throw"
        /\ exc[t] = "ErrorNothingToRead"
        /\ readPtr # 0
        /\ readPtr = writePtr

(***************************************************************************)
(* C6.  Full-write error: a write of a non-empty vector that finds the     *)
(* buffer full throws ErrorBufferBusy and leaves both cursors, the store   *)
(* and the caller's vector as they were, whatever the flag.                *)
(***************************************************************************)
C6_FullWrite ==
    \A t \in Threads :
        (/\ pc[t] \in {"write_loop", "write_erase", "write_return", "write_throw"}
         /\ entry.packets # <<>>
         /\ EntryFull) =>
            /\ pc[t] = "write_throw"
            /\ exc[t] = "ErrorBufferBusy"
            /\ NothingMutated
            /\ packets[t] = entry.packets

\* a write with the removal flag set on a buffer holding bufferSize - 1 elements
C6_Witness ==
    \E t \in Threads :
        /\ pc[t] = "write_throw"
        /\ exc[t] = "ErrorBufferBusy"
        /\ removeWrittenPackets[t]
        /\ Len(stored) = bufferSize - 1
        /\ Len(packets[t]) = MaxPackets

(***************************************************************************)
(* C7.  Removal flag: after a successful write that enqueued k elements    *)
(* the caller's vector is the original without its first k elements when   *)
(* the flag is set, and the original when it is not.                       *)
(***************************************************************************)
C7_RemovalFlag ==
    \A t \in Threads :
        pc[t] = "write_return" =>
            packets[t] = IF removeWrittenPackets[t]
                         THEN Drop(entry.packets, Min(Enqueued, Len(entry.packets)))
                         ELSE entry.packets

(***************************************************************************)
(* C8.  A successful read drains the buffer: it returns every element that *)
(* was resident on entry, oldest first, and leaves readPtr = writePtr, so  *)
(* canRead is then false.                                                  *)
(***************************************************************************)
C8_ReadDrains ==
    \A t \in Threads :
        pc[t] = "read_return" =>
            /\ Len(values[t]) = EntryResident
            /\ values[t] = entry.stored
            /\ values[t] = SlotValues(entry.buffer, entry.readPtr, entry.writePtr)
            /\ readPtr = writePtr
            /\ ~canReadNotThreadSafe

\* a read that returned several elements lying across the end of the backing store
C8_Witness ==
    \E t \in Threads :
        /\ pc[t] = "read_return"
        /\ Len(values[t]) >= 2
        /\ entry.writePtr < entry.readPtr

(***************************************************************************)
(* C9.  Bounded-queue equivalence: every read returns the contents of a    *)
(* FIFO queue of bound bufferSize - 1 that was fed the same calls.         *)
(***************************************************************************)
C9_QueueEquivalence ==
    \A t \in Threads :
        pc[t] = "read_return" => values[t] = accepted

(***************************************************************************)
(* C10.  Mutual exclusion: at most one thread is inside the body of read,  *)
(* write, canRead or canWrite, and a thread inside a body owns the mutex.  *)
(***************************************************************************)
C10_MutualExclusion ==
    /\ \A t1, t2 \in Threads : (InBody(t1) /\ InBody(t2)) => t1 = t2
    /\ \A t \in Threads : InBody(t) => mut = t

\* one thread is copying elements in while another waits at a lock_guard
C10_Witness ==
    \E t1, t2 \in Threads :
        /\ pc[t1] = "write_loop"
        /\ writePtr # entry.writePtr
        /\ pc[t2] = "lock_guard"

(***************************************************************************)
(* C11.  Linearizable ordering: the elements one write call enqueues lie   *)
(* in consecutive slots, each slot holding one whole element of that call, *)
(* and what the reads return, taken in lock order, is the concatenation of *)
(* the written prefixes of the writes, taken in lock order: every read     *)
(* returns the written prefixes of the writes since the read before it.    *)
(***************************************************************************)
C11_Linearizable ==
    \A t \in Threads :
        /\ pc[t] = "write_return" =>
              /\ stored = entry.stored \o SlotValues(buffer, entry.writePtr, writePtr)
              /\ \A i \in (Len(entry.stored) + 1)..Len(stored) :
                    \E j \in 1..Len(entry.packets) : stored[i] = entry.packets[j]
        /\ pc[t] = "read_return" => values[t] = owed

(***************************************************************************)
(* C12.  Non-blocking termination: the read loop runs at most as many      *)
(* iterations as elements were resident on entry, and the write loop at    *)
(* most min(length of the vector, free slots on entry) iterations.         *)
(***************************************************************************)
C12_LoopBounds ==
    \A t \in Threads :
        /\ pc[t] \in {"read_loop", "read_return"} => Len(values[t]) <= EntryResident
        /\ pc[t] \in {"write_loop", "write_erase", "write_return"} =>
              Enqueued <= Min(Len(entry.packets), EntryFree)

(***************************************************************************)
(* C13.  Retry progress: under fair scheduling the producer of the retry   *)
(* scenario eventually holds an empty vector, and the consumer has then    *)
(* been given every element of the original vector once, in order.         *)
(***************************************************************************)
C13_RetryProgress ==
    <>(packets[Producer] = <<>> /\ delivered = original /\ inOrder)

(***************************************************************************)
(* C14.  canRead and canWrite are snapshot queries: canRead returns        *)
(* readPtr # writePtr, canWrite returns advance(writePtr) # readPtr, and   *)
(* neither changes a cursor or the store.                                  *)
(***************************************************************************)
C14_PureQueries ==
    \A t \in Threads :
        /\ pc[t] = "canRead_return" =>
              /\ answer[t] = (readPtr # writePtr)
              /\ NothingMutated
        /\ pc[t] = "canWrite_return" =>
              /\ answer[t] = ((writePtr + PacketSize) % rawBufferSize # readPtr)
              /\ NothingMutated

\* canWrite answered false on a full buffer whose cursors have wrapped
C14_Witness ==
    \E t \in Threads :
        /\ pc[t] = "canWrite_return"
        /\ ~answer[t]
        /\ writePtr < readPtr

(***************************************************************************)
(* C15.  Write on a full buffer.  As claimed: whatever the vector, the     *)
(* empty one included, a write that finds the buffer full throws           *)
(* ErrorBufferBusy, changes nothing and never returns a count.             *)
(***************************************************************************)
C15_AlwaysErrors ==
    \A t \in Threads :
        (pc[t] \in {"write_return", "write_throw"} /\ EntryFull) =>
            /\ pc[t] = "write_throw"
            /\ exc[t] = "ErrorBufferBusy"
            /\ NothingMutated

(***************************************************************************)
(* C15, amended.  A write that finds the buffer full changes nothing; it   *)
(* throws ErrorBufferBusy and returns no count when its vector is not      *)
(* empty, and returns 0 without an error when its vector is empty.         *)
(***************************************************************************)
C15_ErrorsUnlessEmpty ==
    \A t \in Threads :
        /\ pc[t] \in {"write_loop", "write_erase"} => ~EntryFull
        /\ (pc[t] \in {"write_return", "write_throw"} /\ EntryFull) =>
              /\ NothingMutated
              /\ packets[t] = entry.packets
              /\ IF entry.packets = <<>>
                 THEN pc[t] = "write_return" /\ ret[t] = 0 /\ exc[t] = "none"
                 ELSE pc[t] = "write_throw" /\ exc[t] = "ErrorBufferBusy"

\* a write of the empty vector has returned from a full buffer
C15_Witness ==
    \E t \in Threads :
        /\ pc[t] = "write_return"
        /\ EntryFull
        /\ entry.packets = <<>>
        /\ Len(stored) = bufferSize - 1

(***************************************************************************)
(* C16.  Construction precondition: a buffer constructed with bufferSize   *)
(* <= 1 is never usable (the assert of the constructor stops the program,  *)
(* no call is ever made on it), and every buffer on which a call is made   *)
(* has bufferSize > 1 and is never at once empty (readPtr = writePtr) and  *)
(* full (the advanced writePtr equals readPtr).                            *)
(***************************************************************************)
C16_ConstructionPrecondition ==
    /\ bufferSize <= 1 =>
          /\ ~alive
          /\ mut = 0
          /\ \A t \in Threads : pc[t] = "idle"
    /\ (alive \/ \E t \in Threads : pc[t] # "idle") =>
          /\ bufferSize > 1
          /\ rawBufferSize = PacketSize * bufferSize
          /\ ~(/\ readPtr = writePtr
               /\ (writePtr + PacketSize) % rawBufferSize = readPtr)

\* the constructor was given bufferSize 1 and its assert has failed
C16_Witness ==
    /\ bufferSize = 1
    /\ rawBufferSize = PacketSize
    /\ ~alive

(***************************************************************************)
(* C17.  Cursor well-formedness: both cursors start at 0; in every state   *)
(* of a usable buffer each cursor is a multiple of the element size and    *)
(* lies in [0, rawBufferSize); and every step that changes a cursor moves  *)
(* it to (cursor + element size) mod rawBufferSize.                        *)
(***************************************************************************)
C17_CursorsWellFormed ==
    /\ readPtr = 0 /\ writePtr = 0
    /\ [](alive =>
            /\ readPtr % PacketSize = 0 /\ 0 <= readPtr /\ readPtr < rawBufferSize
            /\ writePtr % PacketSize = 0 /\ 0 <= writePtr /\ writePtr < rawBufferSize)
    /\ [][/\ readPtr' # readPtr =>
                readPtr' = (readPtr + PacketSize) % rawBufferSize
          /\ writePtr' # writePtr =>
                writePtr' = (writePtr + PacketSize) % rawBufferSize]_vars

\* a write has taken the write cursor past the end of the storage and back to
\* its start
C17_Witness ==
    \E t \in Threads :
        /\ pc[t] = "write_loop"
        /\ entry.writePtr = rawBufferSize - PacketSize
        /\ writePtr = 0
        /\ readPtr # 0

(***************************************************************************)
(* C18.  Full implies readable: a buffer with bufferSize > 1 is never at   *)
(* once full and empty.  Whenever canWrite answers false the buffer is     *)
(* readable; a write that throws ErrorBufferBusy found a buffer a read     *)
(* would not have refused, and a read that throws ErrorNothingToRead found *)
(* a buffer a write would not have refused.                                *)
(***************************************************************************)
C18_FullImpliesReadable ==
    bufferSize > 1 =>
        /\ (writePtr + PacketSize) % rawBufferSize = readPtr => readPtr # writePtr
        /\ \A t \in Threads :
              /\ (pc[t] = "canWrite_return" /\ ~answer[t]) => readPtr # writePtr
              /\ pc[t] = "write_throw" => entry.readPtr # entry.writePtr
              /\ pc[t] = "read_throw" =>
                    (entry.writePtr + PacketSize) % rawBufferSize # entry.readPtr

\* canWrite has answered false on a buffer of the largest size, whose cursors
\* differ
C18_Witness ==
    \E t \in Threads :
        /\ pc[t] = "canWrite_return"
        /\ ~answer[t]
        /\ bufferSize = MaxBufferSize
        /\ readPtr # writePtr

(***************************************************************************)
(* C19.  Frame of read and write: a read changes neither writePtr nor any  *)
(* byte of the storage; a write changes neither readPtr nor any byte of a  *)
(* slot that held an element when it was entered; a write of the empty     *)
(* vector to a buffer that is not full returns 0 and changes nothing.      *)
(***************************************************************************)
ReadPcs == {"read_check", "read_loop", "read_return", "read_throw"}

WritePcs == {"write_empty", "write_busy", "write_loop", "write_erase",
             "write_return", "write_throw"}

\* the bytes of the slots that held an element at entry
EntryResidentBytes ==
    {b \in DOMAIN entry.buffer :
        ((b - entry.readPtr) + rawBufferSize) % rawBufferSize
            < EntryResident * PacketSize}

C19_Frame ==
    \A t \in Threads :
        /\ pc[t] \in ReadPcs =>
              /\ writePtr = entry.writePtr
              /\ buffer = entry.buffer
        /\ pc[t] \in WritePcs =>
              /\ readPtr = entry.readPtr
              /\ \A b \in EntryResidentBytes : buffer[b] = entry.buffer[b]
        /\ (pc[t] = "write_return" /\ entry.packets = <<>> /\ ~EntryFull) =>
              /\ ret[t] = 0
              /\ NothingMutated
              /\ packets[t] = <<>>

\* a read has copied out every element of a buffer that was full, and the
\* storage still holds them
C19_Witness ==
    \E t \in Threads :
        /\ pc[t] = "read_return"
        /\ Len(values[t]) = bufferSize - 1
        /\ buffer = entry.buffer
        /\ \A b \in DOMAIN buffer : buffer[b] # Indeterminate

=============================================================================
